---- MODULE Spec2Model ----
(***************************************************************************)
(* Model of src/lib/three/luminance.ts: hex colour decoding, Rec. 709      *)
(* luminance and the two emissive-intensity compensators.                  *)
(*                                                                         *)
(* A JavaScript number is an IEEE-754 binary64 value.  The arithmetic of   *)
(* the module (/, *, +, -) is modelled with its rounding (round to         *)
(* nearest, ties to even) on exact significands, so that equalities the    *)
(* code's results do or do not satisfy are decided by the same roundings   *)
(* as in the program.  A significand does not fit TLC's 32-bit integers;   *)
(* it is held as a little-endian sequence of LimbBits-bit limbs.           *)
(***************************************************************************)
EXTENDS Integers, Sequences, FiniteSets

(***************************************************************************)
(* Natural numbers of any size: little-endian limb sequences, no high zero *)
(* limb, <<>> is 0.                                                        *)
(***************************************************************************)
LimbBits == 14

Base == 2^LimbBits

\* Width of the binary64 significand (with the hidden bit).
MantBits == 53

RECURSIVE BTrim(_)
BTrim(a) ==
  IF a = <<>> THEN <<>>
  ELSE IF a[Len(a)] = 0 THEN BTrim(SubSeq(a, 1, Len(a) - 1))
  ELSE a

RECURSIVE BFromNat(_)
BFromNat(n) ==
  IF n = 0 THEN <<>> ELSE <<n % Base>> \o BFromNat(n \div Base)

BLimb(a, i) == IF i >= 1 /\ i <= Len(a) THEN a[i] ELSE 0

RECURSIVE BCmpAt(_, _, _)
BCmpAt(a, b, i) ==
  IF i = 0 THEN 0
  ELSE IF a[i] # b[i] THEN (IF a[i] < b[i] THEN -1 ELSE 1)
  ELSE BCmpAt(a, b, i - 1)

\* -1, 0 or 1 as a < b, a = b, a > b.
BCmp(a, b) ==
  IF Len(a) # Len(b) THEN (IF Len(a) < Len(b) THEN -1 ELSE 1)
  ELSE BCmpAt(a, b, Len(a))

RECURSIVE BAddC(_, _, _, _)
BAddC(a, b, i, c) ==
  IF i > Len(a) /\ i > Len(b) THEN (IF c = 0 THEN <<>> ELSE <<c>>)
  ELSE LET s == BLimb(a, i) + BLimb(b, i) + c
       IN <<s % Base>> \o BAddC(a, b, i + 1, s \div Base)

BAdd(a, b) == BAddC(a, b, 1, 0)

RECURSIVE BSubB(_, _, _, _)
BSubB(a, b, i, borrow) ==
  IF i > Len(a) THEN <<>>
  ELSE LET d == a[i] - BLimb(b, i) - borrow
       IN <<IF d < 0 THEN d + Base ELSE d>>
            \o BSubB(a, b, i + 1, IF d < 0 THEN 1 ELSE 0)

\* a - b, for a >= b.
BSub(a, b) == BTrim(BSubB(a, b, 1, 0))

RECURSIVE BMulSmallC(_, _, _, _)
BMulSmallC(a, k, i, c) ==
  IF i > Len(a) THEN BFromNat(c)
  ELSE LET p == a[i] * k + c
       IN <<p % Base>> \o BMulSmallC(a, k, i + 1, p \div Base)

\* a * k, for 0 <= k <= Base.
BMulSmall(a, k) == BTrim(BMulSmallC(a, k, 1, 0))

RECURSIVE ColSum(_, _, _, _)
ColSum(a, b, k, i) ==
  IF i > Len(a) THEN 0
  ELSE a[i] * BLimb(b, k + 1 - i) + ColSum(a, b, k, i + 1)

RECURSIVE BMulC(_, _, _, _)
BMulC(a, b, k, c) ==
  IF k > Len(a) + Len(b) - 1 THEN BFromNat(c)
  ELSE LET s == ColSum(a, b, k, 1) + c
       IN <<s % Base>> \o BMulC(a, b, k + 1, s \div Base)

BMul(a, b) ==
  IF a = <<>> \/ b = <<>> THEN <<>> ELSE BTrim(BMulC(a, b, 1, 0))

\* a * 2^k
BShl(a, k) ==
  IF a = <<>> THEN <<>>
  ELSE [i \in 1..(k \div LimbBits) |-> 0] \o BMulSmall(a, 2^(k % LimbBits))

\* a \div 2^k
BShr(a, k) ==
  LET q == k \div LimbBits
      r == k % LimbBits
      n == Len(a) - q
  IN IF n <= 0 THEN <<>>
     ELSE BTrim([i \in 1..n |->
            (a[i + q] \div 2^r) + (BLimb(a, i + q + 1) % 2^r) * 2^(LimbBits - r)])

\* Bit k of a (bit 0 is the lowest).
BBit(a, k) == (BLimb(a, k \div LimbBits + 1) \div 2^(k % LimbBits)) % 2

\* a % 2^k = 0
BLowZero(a, k) ==
  /\ \A i \in 1..Len(a) : i <= k \div LimbBits => a[i] = 0
  /\ BLimb(a, k \div LimbBits + 1) % 2^(k % LimbBits) = 0

RECURSIVE BitLenSmall(_)
BitLenSmall(x) == IF x = 0 THEN 0 ELSE 1 + BitLenSmall(x \div 2)

BBitLen(a) ==
  IF a = <<>> THEN 0 ELSE (Len(a) - 1) * LimbBits + BitLenSmall(a[Len(a)])

RECURSIVE DivDigit(_, _, _)
DivDigit(r, d, g) ==
  IF BCmp(BMulSmall(d, g), r) > 0 THEN DivDigit(r, d, g - 1) ELSE g

\* n more limbs of the quotient of r / d, for r < d and d's top limb >= Base/2:
\* [q |-> floor(r * Base^n / d) (after the limbs in qs), r |-> the remainder].
RECURSIVE DivLimbs(_, _, _, _)
DivLimbs(r, d, n, qs) ==
  IF n = 0 THEN [q |-> BTrim(qs), r |-> r]
  ELSE LET r1 == BShl(r, LimbBits)
           top == BLimb(r1, Len(d) + 1) * Base + BLimb(r1, Len(d))
           est == IF top \div d[Len(d)] > Base - 1 THEN Base - 1
                  ELSE top \div d[Len(d)]
           dig == DivDigit(r1, d, est)
       IN DivLimbs(BSub(r1, BMulSmall(d, dig)), d, n - 1, <<dig>> \o qs)

(***************************************************************************)
(* binary64 values: sign, significand and exponent, the value being        *)
(* (-1)^sign * mant * 2^exp with 2^52 <= mant < 2^53, or zero.  The two    *)
(* zeros are one value here: ===, < and >= do not tell them apart and the  *)
(* module never divides by a computed zero.  Exponents are not bounded:    *)
(* the values the model reaches are far from overflow and underflow.       *)
(***************************************************************************)
Zero == [sign |-> 0, mant |-> <<>>, exp |-> 0]

\* The binary64 nearest to (-1)^sign * (m + s) * 2^e, where 0 < s < 1 when
\* sticky and s = 0 otherwise; ties go to the even significand.
Round(sign, m, e, sticky) ==
  IF m = <<>> THEN Zero
  ELSE LET n == BBitLen(m)
       IN IF n <= MantBits
          THEN [sign |-> sign, mant |-> BShl(m, MantBits - n),
                exp |-> e - (MantBits - n)]
          ELSE LET k == n - MantBits
                   q == BShr(m, k)
                   up == /\ BBit(m, k - 1) = 1
                         /\ (sticky \/ ~BLowZero(m, k - 1) \/ q[1] % 2 = 1)
                   q1 == IF up THEN BAdd(q, <<1>>) ELSE q
               IN IF BBitLen(q1) > MantBits
                  THEN [sign |-> sign, mant |-> BShr(q1, 1), exp |-> e + k + 1]
                  ELSE [sign |-> sign, mant |-> q1, exp |-> e + k]

\* An integer (of magnitude below 2^31) as a number.
FromInt(n) == Round(IF n < 0 THEN 1 ELSE 0, BFromNat(IF n < 0 THEN -n ELSE n), 0, FALSE)

IsZero(a) == a.mant = <<>>

FNeg(a) == IF IsZero(a) THEN a ELSE [a EXCEPT !.sign = 1 - @]

\* a * b
FMul(a, b) ==
  IF IsZero(a) \/ IsZero(b) THEN Zero
  ELSE Round((a.sign + b.sign) % 2, BMul(a.mant, b.mant), a.exp + b.exp, FALSE)

\* a / b, for b # 0
FDiv(a, b) ==
  IF IsZero(a) THEN Zero
  ELSE LET qr == DivLimbs(BShl(a.mant, 2), BShl(b.mant, 3), 4, <<>>)
       IN Round((a.sign + b.sign) % 2, qr.q, a.exp - b.exp - 55, qr.r # <<>>)

\* a + b
FAdd(a, b) ==
  IF IsZero(a) THEN b
  ELSE IF IsZero(b) THEN a
  ELSE LET e == IF a.exp < b.exp THEN a.exp ELSE b.exp
           x == BShl(a.mant, a.exp - e)
           y == BShl(b.mant, b.exp - e)
           c == BCmp(x, y)
       IN IF a.sign = b.sign THEN Round(a.sign, BAdd(x, y), e, FALSE)
          ELSE IF c = 0 THEN Zero
          ELSE IF c > 0 THEN Round(a.sign, BSub(x, y), e, FALSE)
          ELSE Round(b.sign, BSub(y, x), e, FALSE)

\* a - b
FSub(a, b) == FAdd(a, FNeg(b))

\* -1, 0 or 1 as a < b, a === b, a > b.
FCmp(a, b) ==
  LET mag == IF a.exp # b.exp THEN (IF a.exp < b.exp THEN -1 ELSE 1)
             ELSE BCmp(a.mant, b.mant)
  IN IF IsZero(a) THEN (IF IsZero(b) THEN 0 ELSE IF b.sign = 0 THEN -1 ELSE 1)
     ELSE IF IsZero(b) THEN (IF a.sign = 0 THEN 1 ELSE -1)
     ELSE IF a.sign # b.sign THEN (IF a.sign = 1 THEN -1 ELSE 1)
     ELSE IF a.sign = 0 THEN mag ELSE 0 - mag

FLt(a, b) == FCmp(a, b) < 0

FLe(a, b) == FCmp(a, b) <= 0

\* The decimal literal n * 10^(-k) as the parser reads it: the nearest number.
Dec(n, k) == FDiv(FromInt(n), FromInt(10^k))

One == FromInt(1)

(***************************************************************************)
(* Strings are sequences of one-character strings.                         *)
(***************************************************************************)
HexDigitChars ==
  <<"0", "1", "2", "3", "4", "5", "6", "7", "8", "9",
    "a", "b", "c", "d", "e", "f", "A", "B", "C", "D", "E", "F">>

\* [0-9A-Fa-f]
IsHexDigit(ch) == \E i \in 1..Len(HexDigitChars) : HexDigitChars[i] = ch

\* Mutant: the upper-case letters are valued one too high.
DigitValueUpperOff(ch) ==
  LET i == CHOOSE j \in 1..Len(HexDigitChars) : HexDigitChars[j] = ch
  IN IF i <= 16 THEN i - 1 ELSE i - 6

\* The value of one base-16 digit.
DigitValue(ch) ==
  LET i == CHOOSE j \in 1..Len(HexDigitChars) : HexDigitChars[j] = ch
  IN IF i <= 16 THEN i - 1 ELSE i - 7

\* parseInt(s, 16) on a string of hex digits.
RECURSIVE ParseIntHex(_)
ParseIntHex(s) ==
  IF s = <<>> THEN 0
  ELSE 16 * ParseIntHex(SubSeq(s, 1, Len(s) - 1)) + DigitValue(s[Len(s)])

\* hex.replace('#', ''): a string pattern replaces its first occurrence only.
ReplaceHash(hex) ==
  IF \E i \in 1..Len(hex) : hex[i] = "#"
  THEN LET i == CHOOSE j \in 1..Len(hex) :
                  hex[j] = "#" /\ \A k \in 1..(j - 1) : hex[k] # "#"
       IN SubSeq(hex, 1, i - 1) \o SubSeq(hex, i + 1, Len(hex))
  ELSE hex

\* /^[0-9A-Fa-f]{6}$/.test(s)
MatchesSixHex(s) == Len(s) = 6 /\ \A i \in 1..Len(s) : IsHexDigit(s[i])

(***************************************************************************)
(* What a call does: it returns a value or throws an Error, and it may     *)
(* have written lines with console.warn (warned).                          *)
(***************************************************************************)
Return(v) == [kind |-> "return", value |-> v, warned |-> <<>>]

Throw(msg) == [kind |-> "throw", message |-> msg, warned |-> <<>>]

\* `Invalid hex color: ${hex}. Expected format: #RRGGBB`
InvalidHexMessage(hex) == <<"Invalid hex color: ", hex, ". Expected format: #RRGGBB">>

\* `Color ${hexColor} has zero luminance and cannot bloom. Returning intensity 1.0.`
ZeroLuminanceWarning(hexColor) ==
  <<"Color ", hexColor, " has zero luminance and cannot bloom. Returning intensity 1.0.">>

REC709_COEFFICIENTS ==
  [red |-> Dec(2126, 4), green |-> Dec(7152, 4), blue |-> Dec(722, 4)]

\* Mutant: the channels are divided by 256.
hexToRgbBy256(hex) ==
  LET cleanHex == ReplaceHash(hex)
  IN IF ~MatchesSixHex(cleanHex) THEN Throw(InvalidHexMessage(hex))
     ELSE Return([r |-> FDiv(FromInt(ParseIntHex(SubSeq(cleanHex, 1, 2))), FromInt(256)),
                  g |-> FDiv(FromInt(ParseIntHex(SubSeq(cleanHex, 3, 4))), FromInt(256)),
                  b |-> FDiv(FromInt(ParseIntHex(SubSeq(cleanHex, 5, 6))), FromInt(256))])

hexToRgb(hex) ==
  LET cleanHex == ReplaceHash(hex)
  IN IF ~MatchesSixHex(cleanHex) THEN Throw(InvalidHexMessage(hex))
     ELSE Return([r |-> FDiv(FromInt(ParseIntHex(SubSeq(cleanHex, 1, 2))), FromInt(255)),
                  g |-> FDiv(FromInt(ParseIntHex(SubSeq(cleanHex, 3, 4))), FromInt(255)),
                  b |-> FDiv(FromInt(ParseIntHex(SubSeq(cleanHex, 5, 6))), FromInt(255))])

\* Mutant: the blue term is left out of the weighted sum.
calculateLuminanceNoBlue(rgb) ==
  FAdd(FMul(REC709_COEFFICIENTS.red, rgb.r), FMul(REC709_COEFFICIENTS.green, rgb.g))

calculateLuminance(rgb) ==
  FAdd(FAdd(FMul(REC709_COEFFICIENTS.red, rgb.r),
            FMul(REC709_COEFFICIENTS.green, rgb.g)),
       FMul(REC709_COEFFICIENTS.blue, rgb.b))

\* Mutant: the boost is the excess of the target over the base luminance,
\* relative to the base luminance.
calculateEmissiveIntensityExcess(hexColor, targetLuminance) ==
  LET rgb == hexToRgb(hexColor)
  IN IF rgb.kind = "throw" THEN rgb
     ELSE LET baseLuminance == calculateLuminance(rgb.value)
          IN IF IsZero(baseLuminance)
             THEN [kind |-> "return", value |-> One,
                   warned |-> <<ZeroLuminanceWarning(hexColor)>>]
             ELSE Return(FDiv(FSub(targetLuminance, baseLuminance), baseLuminance))

\* Mutant: the target is multiplied by the base luminance instead of divided.
calculateEmissiveIntensityTimes(hexColor, targetLuminance) ==
  LET rgb == hexToRgb(hexColor)
  IN IF rgb.kind = "throw" THEN rgb
     ELSE LET baseLuminance == calculateLuminance(rgb.value)
          IN IF IsZero(baseLuminance)
             THEN [kind |-> "return", value |-> One,
                   warned |-> <<ZeroLuminanceWarning(hexColor)>>]
             ELSE Return(FMul(targetLuminance, baseLuminance))

\* Mutant: a colour that does not decode is treated like black.
calculateEmissiveIntensityRecovers(hexColor, targetLuminance) ==
  LET rgb == hexToRgb(hexColor)
  IN IF rgb.kind = "throw"
     THEN [kind |-> "return", value |-> One,
           warned |-> <<ZeroLuminanceWarning(hexColor)>>]
     ELSE LET baseLuminance == calculateLuminance(rgb.value)
          IN IF IsZero(baseLuminance)
             THEN [kind |-> "return", value |-> One,
                   warned |-> <<ZeroLuminanceWarning(hexColor)>>]
             ELSE Return(FDiv(targetLuminance, baseLuminance))

calculateEmissiveIntensity(hexColor, targetLuminance) ==
  LET rgb == hexToRgb(hexColor)
  IN IF rgb.kind = "throw" THEN rgb
     ELSE LET baseLuminance == calculateLuminance(rgb.value)
          IN IF IsZero(baseLuminance)
             THEN [kind |-> "return", value |-> One,
                   warned |-> <<ZeroLuminanceWarning(hexColor)>>]
             ELSE Return(FDiv(targetLuminance, baseLuminance))

\* Mutant: the blend runs from full compensation to the baseline.
calculateArtisticIntensityReversed(hexColor, targetLuminance, compensationFactor) ==
  LET rgb == hexToRgb(hexColor)
  IN IF rgb.kind = "throw" THEN rgb
     ELSE LET baseLuminance == calculateLuminance(rgb.value)
          IN IF IsZero(baseLuminance)
             THEN [kind |-> "return", value |-> One,
                   warned |-> <<ZeroLuminanceWarning(hexColor)>>]
             ELSE LET fullCompensation == FDiv(targetLuminance, baseLuminance)
                  IN Return(FAdd(fullCompensation,
                                 FMul(FSub(One, fullCompensation), compensationFactor)))

\* Mutant: the compensation factor is clamped to [0, 1].
calculateArtisticIntensityClamped(hexColor, targetLuminance, compensationFactor) ==
  LET rgb == hexToRgb(hexColor)
      factor == IF FLt(compensationFactor, Zero) THEN Zero
                ELSE IF FLt(One, compensationFactor) THEN One
                ELSE compensationFactor
  IN IF rgb.kind = "throw" THEN rgb
     ELSE LET baseLuminance == calculateLuminance(rgb.value)
          IN IF IsZero(baseLuminance)
             THEN [kind |-> "return", value |-> One,
                   warned |-> <<ZeroLuminanceWarning(hexColor)>>]
             ELSE LET fullCompensation == FDiv(targetLuminance, baseLuminance)
                  IN Return(FAdd(One, FMul(FSub(fullCompensation, One), factor)))

\* Mutant: the baseline is not taken off the full compensation before blending.
calculateArtisticIntensityNoBaseline(hexColor, targetLuminance, compensationFactor) ==
  LET rgb == hexToRgb(hexColor)
  IN IF rgb.kind = "throw" THEN rgb
     ELSE LET baseLuminance == calculateLuminance(rgb.value)
          IN IF IsZero(baseLuminance)
             THEN [kind |-> "return", value |-> One,
                   warned |-> <<ZeroLuminanceWarning(hexColor)>>]
             ELSE LET fullCompensation == FDiv(targetLuminance, baseLuminance)
                  IN Return(FAdd(One, FMul(fullCompensation, compensationFactor)))

calculateArtisticIntensity(hexColor, targetLuminance, compensationFactor) ==
  LET rgb == hexToRgb(hexColor)
  IN IF rgb.kind = "throw" THEN rgb
     ELSE LET baseLuminance == calculateLuminance(rgb.value)
          IN IF IsZero(baseLuminance)
             THEN [kind |-> "return", value |-> One,
                   warned |-> <<ZeroLuminanceWarning(hexColor)>>]
             ELSE LET fullCompensation == FDiv(targetLuminance, baseLuminance)
                  IN Return(FAdd(One, FMul(FSub(fullCompensation, One),
                                           compensationFactor)))

\* Mutant: the zero-luminance test of the intensity functions is copied in.
getColorLuminanceWarns(hexColor) ==
  LET rgb == hexToRgb(hexColor)
  IN IF rgb.kind = "throw" THEN rgb
     ELSE LET baseLuminance == calculateLuminance(rgb.value)
          IN IF IsZero(baseLuminance)
             THEN [kind |-> "return", value |-> baseLuminance,
                   warned |-> <<ZeroLuminanceWarning(hexColor)>>]
             ELSE Return(baseLuminance)

getColorLuminance(hexColor) ==
  LET rgb == hexToRgb(hexColor)
  IN IF rgb.kind = "throw" THEN rgb ELSE Return(calculateLuminance(rgb.value))

\* Default parameter values: an omitted trailing argument takes its default.
DefaultEmissiveTarget == Dec(105, 2)

\* Mutant: the default target is copied from calculateEmissiveIntensity.
DefaultArtisticTargetCopied == Dec(105, 2)

DefaultArtisticTarget == FromInt(2)

DefaultCompensationFactor == Dec(5, 1)

Arg(a, i, default) == IF Len(a) >= i THEN a[i] ELSE default

(***************************************************************************)
(* The bounded inputs.                                                     *)
(***************************************************************************)
\* Longest string given to hexToRgb under SpecDecode.
MaxLen == 7

\* Most lines the console holds before the callers stop.
MaxConsole == 2

Alphabet == {"0", "f", "A", "#", "g"}

HexStrings == UNION {[1..n -> Alphabet] : n \in 0..MaxLen}

Colours ==
  { <<"#", "f", "f", "0", "0", "f", "f">>,   \* magenta
    <<"f", "f", "0", "0", "f", "f">>,
    <<"#", "0", "0", "f", "f", "f", "f">>,   \* cyan
    <<"f", "f", "f", "f", "0", "0">>,        \* yellow
    <<"#", "f", "f", "f", "f", "f", "f">>,   \* white
    <<"#", "F", "f", "A", "a", "0", "0">>,
    <<"#", "0", "0", "0", "0", "f", "f">>,   \* blue
    <<"#", "8", "0", "8", "0", "8", "0">>,
    <<"#", "0", "1", "0", "0", "0", "0">>,
    <<"#", "0", "2", "0", "a", "0", "0">>,   \* the same weighted sum as the next,
    <<"#", "1", "3", "0", "0", "3", "1">>,   \* rounded differently
    <<"#", "0", "0", "0", "0", "0", "0">>,   \* black
    <<"0", "0", "0", "0", "0", "0">>,
    <<"f", "f", "#", "0", "0", "f", "f">>,
    <<"#", "f", "f", "f">>,
    <<"#", "g", "g", "g", "g", "g", "g">>,
    <<>> }

Targets == {Dec(105, 2), FromInt(2), Dec(1, 1), Zero, FromInt(-1)}

Factors == {Zero, Dec(3, 1), Dec(5, 1), Dec(7, 1), One, Dec(-5, 1), Dec(15, 1)}

EmissiveArgs ==
  {<<c>> : c \in Colours} \cup {<<c, t>> : c \in Colours, t \in Targets}

ArtisticArgs ==
  EmissiveArgs \cup {<<c, t, f>> : c \in Colours, t \in Targets, f \in Factors}

(***************************************************************************)
(* The state: a caller (the renderer, a test) calls one function at a      *)
(* time; the module itself keeps nothing between calls, the console keeps  *)
(* what console.warn wrote.                                                *)
(***************************************************************************)
VARIABLES
  pc,       \* "idle", "calling" (arguments passed) or "returned"
  fn,       \* the function called
  args,     \* the arguments passed, omitted trailing ones left out
  outcome,  \* what the call did, once it is over
  console,  \* the lines console.warn wrote, oldest first
  other     \* a second, independent call site: its pc, fn, args and outcome

vars == <<pc, fn, args, outcome, console, other>>

NoOutcome == [kind |-> "none"]

\* A call site between calls.
IdleSite == [pc |-> "idle", fn |-> "none", args |-> <<>>, outcome |-> NoOutcome]

Init ==
  /\ pc = "idle"
  /\ fn = "none"
  /\ args = <<>>
  /\ outcome = NoOutcome
  /\ console = <<>>
  /\ other = IdleSite

\* The caller is between calls and the console has room.
CanCall == pc = "idle" /\ Len(console) < MaxConsole

\* The caller passes the arguments a to function f.
Call(f, a) ==
  /\ pc' = "calling"
  /\ fn' = f
  /\ args' = a
  /\ outcome' = NoOutcome
  /\ UNCHANGED <<console, other>>

\* calculateLuminance(hexToRgb(c)): the caller passes the triple it was returned.
CallOnDecoded ==
  /\ pc = "returned"
  /\ fn = "hexToRgb"
  /\ outcome.kind = "return"
  /\ pc' = "calling"
  /\ fn' = "calculateLuminance"
  /\ args' = <<outcome.value>>
  /\ outcome' = NoOutcome
  /\ UNCHANGED <<console, other>>

\* calculateEmissiveIntensity(c, getColorLuminance(c)): the caller passes the
\* luminance it was returned as the target.
CallOnLuminance ==
  /\ pc = "returned"
  /\ fn = "getColorLuminance"
  /\ outcome.kind = "return"
  /\ Len(console) < MaxConsole
  /\ pc' = "calling"
  /\ fn' = "calculateEmissiveIntensity"
  /\ args' = <<args[1], outcome.value>>
  /\ outcome' = NoOutcome
  /\ UNCHANGED <<console, other>>

\* Mutant: a console line already written is not written again.
FinishWarnOnce(f, o) ==
  /\ pc = "calling"
  /\ fn = f
  /\ pc' = "returned"
  /\ outcome' = o
  /\ console' = IF \E i \in 1..Len(console) : <<console[i]>> = outcome'.warned
                THEN console
                ELSE console \o outcome'.warned
  /\ UNCHANGED <<fn, args, other>>

\* The body of function f runs to its end and does o.
Finish(f, o) ==
  /\ pc = "calling"
  /\ fn = f
  /\ pc' = "returned"
  /\ outcome' = o
  /\ console' = console \o outcome'.warned
  /\ UNCHANGED <<fn, args, other>>

HexToRgb == Finish("hexToRgb", hexToRgb(args[1]))

CalculateLuminance == Finish("calculateLuminance", Return(calculateLuminance(args[1])))

CalculateEmissiveIntensity ==
  Finish("calculateEmissiveIntensity",
         calculateEmissiveIntensity(args[1], Arg(args, 2, DefaultEmissiveTarget)))

CalculateArtisticIntensity ==
  Finish("calculateArtisticIntensity",
         calculateArtisticIntensity(args[1], Arg(args, 2, DefaultArtisticTarget),
                                    Arg(args, 3, DefaultCompensationFactor)))

GetColorLuminance == Finish("getColorLuminance", getColorLuminance(args[1]))

\* The caller has used the result.
Release ==
  /\ pc = "returned"
  /\ pc' = "idle"
  /\ fn' = "none"
  /\ args' = <<>>
  /\ outcome' = NoOutcome
  /\ UNCHANGED <<console, other>>

Run ==
  \/ HexToRgb
  \/ CalculateLuminance
  \/ CalculateEmissiveIntensity
  \/ CalculateArtisticIntensity
  \/ GetColorLuminance
  \/ CallOnDecoded
  \/ CallOnLuminance
  \/ Release

CallHexToRgb == CanCall /\ \E c \in Colours : Call("hexToRgb", <<c>>)

CallCalculateEmissiveIntensity ==
  CanCall /\ \E a \in EmissiveArgs : Call("calculateEmissiveIntensity", a)

CallCalculateArtisticIntensity ==
  CanCall /\ \E a \in ArtisticArgs : Call("calculateArtisticIntensity", a)

CallGetColorLuminance == CanCall /\ \E c \in Colours : Call("getColorLuminance", <<c>>)

Next ==
  \/ CallHexToRgb
  \/ CallCalculateEmissiveIntensity
  \/ CallCalculateArtisticIntensity
  \/ CallGetColorLuminance
  \/ Run

Spec == Init /\ [][Next]_vars

\* hexToRgb and calculateLuminance alone, on every string over Alphabet.
CallHexToRgbOnString == CanCall /\ \E s \in HexStrings : Call("hexToRgb", <<s>>)

NextDecode ==
  \/ CallHexToRgbOnString
  \/ HexToRgb
  \/ CalculateLuminance
  \/ CallOnDecoded
  \/ Release

SpecDecode == Init /\ [][NextDecode]_vars

(***************************************************************************)
(* Two independent call sites (two spheres of the scene): each calls one   *)
(* function at a time, and the calls of one may fall between the call and  *)
(* the return of the other.                                                *)
(***************************************************************************)
SiteColours ==
  { <<"#", "f", "f", "0", "0", "f", "f">>,
    <<"#", "0", "0", "0", "0", "0", "0">>,
    <<"#", "f", "f", "f">> }

\* The calls a site makes: the function and its arguments.
SiteCalls ==
  UNION { { <<"hexToRgb", <<c>>>>,
            <<"getColorLuminance", <<c>>>>,
            <<"calculateEmissiveIntensity", <<c>>>>,
            <<"calculateEmissiveIntensity", <<c, FromInt(2)>>>>,
            <<"calculateArtisticIntensity", <<c, FromInt(2), Dec(5, 1)>>>> }
          : c \in SiteColours }

CallFromSite == CanCall /\ \E c \in SiteCalls : Call(c[1], c[2])

\* The calls the second site makes: a sphere of the scene asks for its full
\* compensation, with the default target or with its own.
OtherCalls == {c \in SiteCalls : c[1] = "calculateEmissiveIntensity"}

OtherCall ==
  /\ other.pc = "idle"
  /\ Len(console) < MaxConsole
  /\ \E c \in OtherCalls :
       other' = [pc |-> "calling", fn |-> c[1], args |-> c[2], outcome |-> NoOutcome]
  /\ UNCHANGED <<pc, fn, args, outcome, console>>

OtherFinish ==
  /\ other.pc = "calling"
  /\ \E o \in {calculateEmissiveIntensity(other.args[1],
                                           Arg(other.args, 2, DefaultEmissiveTarget))} :
       /\ other' = [pc |-> "returned", fn |-> other.fn, args |-> other.args,
                    outcome |-> o]
       /\ console' = console \o o.warned
  /\ UNCHANGED <<pc, fn, args, outcome>>

OtherRelease ==
  /\ other.pc = "returned"
  /\ other' = IdleSite
  /\ UNCHANGED <<pc, fn, args, outcome, console>>

NextSites ==
  \/ CallFromSite
  \/ Run
  \/ OtherCall
  \/ OtherFinish
  \/ OtherRelease

SpecSites == Init /\ [][NextSites]_vars

(***************************************************************************)
(* The claims.  Each is about a call that has returned: the arguments are  *)
(* in args and what the call did is in outcome.                            *)
(***************************************************************************)
Returned(f) == pc = "returned" /\ fn = f

HexChars ==
  {"0", "1", "2", "3", "4", "5", "6", "7", "8", "9",
   "a", "b", "c", "d", "e", "f", "A", "B", "C", "D", "E", "F"}

\* Exactly six hexadecimal digits, optionally after one leading '#'.
WellFormed(s) ==
  \/ Len(s) = 6 /\ \A i \in 1..6 : s[i] \in HexChars
  \/ Len(s) = 7 /\ s[1] = "#" /\ \A i \in 2..7 : s[i] \in HexChars

\* hexToRgb accepts c.
Valid(c) == hexToRgb(c).kind = "return"

\* Pure black: every digit is 0.
Black(c) == \A i \in 1..Len(c) : c[i] \in {"0", "#"}

\* The base luminance of a colour hexToRgb accepts.
Lum(c) == calculateLuminance(hexToRgb(c).value)

FAbs(a) == [a EXCEPT !.sign = 0]

\* 2^k
Pow2(k) == [One EXCEPT !.exp = @ + k]

\* |a - b| <= 2^(-51) * scale
WithinRounding(a, b, scale) == FLe(FAbs(FSub(a, b)), FMul(Pow2(-51), scale))

\* C1: hexToRgb throws the invalid-colour error, carrying the input, on every
\* string that is not six hex digits optionally preceded by one leading '#'.
C1_MalformedRejected ==
  (Returned("hexToRgb") /\ ~WellFormed(args[1])) =>
    /\ outcome.kind = "throw"
    /\ outcome.message = <<"Invalid hex color: ", args[1], ". Expected format: #RRGGBB">>

\* C2 as stated: for a valid non-black colour c and a target t,
\* calculateEmissiveIntensity(c, t) is t / luminance(c), its product with
\* getColorLuminance(c) is t, and it is 1 when t is the colour's luminance.
C2_ProductIsTarget ==
  (Returned("calculateEmissiveIntensity") /\ Len(args) = 2
     /\ Valid(args[1]) /\ ~Black(args[1])) =>
    /\ outcome.kind = "return"
    /\ outcome.value = FDiv(args[2], Lum(args[1]))
    /\ FMul(outcome.value, getColorLuminance(args[1]).value) = args[2]
    /\ (args[2] = Lum(args[1]) => outcome.value = One)

\* C2 amended: calculateEmissiveIntensity(c, t) is the quotient t / luminance(c)
\* (one rounded division); its product with getColorLuminance(c) is t up to
\* rounding (relative error at most 2^-51), and the result is exactly 1 when t
\* is the colour's luminance.
C2_QuotientOfTarget ==
  (Returned("calculateEmissiveIntensity") /\ Len(args) = 2
     /\ Valid(args[1]) /\ ~Black(args[1])) =>
    /\ outcome.kind = "return"
    /\ outcome.value = FDiv(args[2], Lum(args[1]))
    /\ WithinRounding(FMul(outcome.value, getColorLuminance(args[1]).value),
                      args[2], FAbs(args[2]))
    /\ (args[2] = Lum(args[1]) => outcome.value = One)

\* A non-black colour's own luminance was passed as the target, and 1 came back.
C2_Witness ==
  /\ Returned("calculateEmissiveIntensity") /\ Len(args) = 2
  /\ Valid(args[1]) /\ ~Black(args[1])
  /\ args[2] = Lum(args[1])
  /\ outcome.value = One

\* C3: on a valid colour the two intensity functions take the fallback exactly
\* when the colour is pure black: then they return 1.0 and write one
\* diagnostic, whatever the target and the factor; on any other valid colour
\* they write none and return the result of the division.
C3_FallbackExactlyOnBlack ==
  (pc = "returned" /\ fn \in {"calculateEmissiveIntensity", "calculateArtisticIntensity"}
     /\ Valid(args[1])) =>
    /\ outcome.kind = "return"
    /\ IF Black(args[1])
       THEN /\ outcome.value = One
            /\ Len(outcome.warned) = 1
            /\ console # <<>>
            /\ console[Len(console)] = outcome.warned[1]
       ELSE /\ outcome.warned = <<>>
            /\ outcome.value =
                 IF fn = "calculateEmissiveIntensity"
                 THEN FDiv(Arg(args, 2, DefaultEmissiveTarget), Lum(args[1]))
                 ELSE FAdd(One, FMul(FSub(FDiv(Arg(args, 2, DefaultArtisticTarget),
                                               Lum(args[1])), One),
                                     Arg(args, 3, DefaultCompensationFactor)))

\* calculateArtisticIntensity was called on black with a target and a factor:
\* it returned 1.0 and the console holds its one line.
C3_Witness ==
  /\ Returned("calculateArtisticIntensity") /\ Len(args) = 3
  /\ Valid(args[1]) /\ Black(args[1])
  /\ outcome.kind = "return" /\ outcome.value = One
  /\ args[3] # DefaultCompensationFactor
  /\ Len(console) = 1

\* C4: for a valid non-black colour c, any target t and any factor f (below 0
\* and above 1 included), calculateArtisticIntensity(c, t, f) is
\* 1.0 + (calculateEmissiveIntensity(c, t) - 1.0) * f.
C4_LinearBlend ==
  (Returned("calculateArtisticIntensity") /\ Len(args) = 3
     /\ Valid(args[1]) /\ ~Black(args[1])) =>
    /\ outcome.kind = "return"
    /\ outcome.value =
         FAdd(One, FMul(FSub(calculateEmissiveIntensity(args[1], args[2]).value, One),
                        args[3]))

\* A negative factor was passed with a target that needs a boost: the result
\* is below the baseline 1.0.
C4_Witness ==
  /\ Returned("calculateArtisticIntensity") /\ Len(args) = 3
  /\ Valid(args[1]) /\ ~Black(args[1])
  /\ FLt(args[3], Zero)
  /\ outcome.kind = "return" /\ FLt(outcome.value, One)

ValidColours == {c \in Colours : Valid(c)}

\* The factors in [0, 1].
UnitFactors == {f \in Factors : FLe(Zero, f) /\ FLe(f, One)}

LumOf == [c \in ValidColours |-> Lum(c)]

\* The multiplier a colour is blended toward: the full compensation, and 1.0
\* (the fallback) for black.
FullOf == [c \in ValidColours, t \in Targets |-> calculateEmissiveIntensity(c, t).value]

\* calculateArtisticIntensity over the valid colours, the targets and the
\* factors in [0, 1], tabulated.
ArtisticOf ==
  [c \in ValidColours, t \in Targets, f \in UnitFactors |->
     calculateArtisticIntensity(c, t, f).value]

\* The gap between the outputs for c1 and c2 at target t and factor f,
\* tabulated.
GapOf ==
  [c1 \in ValidColours, c2 \in ValidColours, t \in Targets, f \in UnitFactors |->
     FAbs(FSub(ArtisticOf[c1, t, f], ArtisticOf[c2, t, f]))]

Gap(c1, c2, t, f) == GapOf[c1, c2, t, f]

\* The returned call is calculateArtisticIntensity(c, t, f) with c valid and f
\* in [0, 1].
ArtisticInUnit ==
  /\ Returned("calculateArtisticIntensity") /\ Len(args) = 3
  /\ args[1] \in ValidColours /\ args[3] \in UnitFactors
  /\ outcome.kind = "return"

LumApartOf ==
  [c1 \in ValidColours, c2 \in ValidColours |->
     ~WithinRounding(LumOf[c1], LumOf[c2], One)]

LumApart(c1, c2) == LumApartOf[c1, c2]

C6_NonNegative ==
  (Returned("calculateEmissiveIntensity") /\ Valid(args[1])) =>
    /\ outcome.kind = "return"
    /\ FLe(Zero, outcome.value)

\* C6 amended: on a valid colour calculateEmissiveIntensity returns a number
\* >= 0 for every target >= 0 (1.0 for black, whatever the target); for a
\* target below 0 and a colour that is not black the result is below 0.
C6_SignOfTarget ==
  (Returned("calculateEmissiveIntensity") /\ Valid(args[1])) =>
    LET t == Arg(args, 2, DefaultEmissiveTarget)
    IN /\ outcome.kind = "return"
       /\ (FLe(Zero, t) => FLe(Zero, outcome.value))
       /\ (Black(args[1]) => outcome.value = One)
       /\ (FLt(t, Zero) /\ ~Black(args[1]) => FLt(outcome.value, Zero))

\* A target >= 0 was passed with a non-black colour and a number >= 0 came back.
C6_Witness ==
  /\ Returned("calculateEmissiveIntensity") /\ Len(args) = 2
  /\ Valid(args[1]) /\ ~Black(args[1])
  /\ FLt(Zero, args[2])
  /\ outcome.kind = "return" /\ FLt(Zero, outcome.value)

\* The value of a base-16 digit, by the table.
HexValue(ch) ==
  CASE ch = "0" -> 0 [] ch = "1" -> 1 [] ch = "2" -> 2 [] ch = "3" -> 3
    [] ch = "4" -> 4 [] ch = "5" -> 5 [] ch = "6" -> 6 [] ch = "7" -> 7
    [] ch = "8" -> 8 [] ch = "9" -> 9
    [] ch \in {"a", "A"} -> 10 [] ch \in {"b", "B"} -> 11
    [] ch \in {"c", "C"} -> 12 [] ch \in {"d", "D"} -> 13
    [] ch \in {"e", "E"} -> 14 [] ch \in {"f", "F"} -> 15

\* The digits of s: s without its '#'.
DigitsOf(s) == SelectSeq(s, LAMBDA ch : ch # "#")

\* The base-16 value of the i-th pair of digits of s.
PairValue(s, i) == 16 * HexValue(DigitsOf(s)[2 * i - 1]) + HexValue(DigitsOf(s)[2 * i])

InUnit(x) == FLe(Zero, x) /\ FLe(x, One)

\* C7: on an accepted input hexToRgb returns (r, g, b), the base-16 values of
\* the digit pairs 1-2, 3-4 and 5-6, each divided by 255: every component is in
\* [0, 1], exactly 0 for 00 and exactly 1 for ff.
C7_ChannelsOver255 ==
  (Returned("hexToRgb") /\ outcome.kind = "return") =>
    LET s == args[1]
        v == <<outcome.value.r, outcome.value.g, outcome.value.b>>
    IN /\ Len(DigitsOf(s)) = 6
       /\ \A i \in 1..3 :
            /\ v[i] = FDiv(FromInt(PairValue(s, i)), FromInt(255))
            /\ InUnit(v[i])
            /\ (PairValue(s, i) = 0 <=> v[i] = Zero)
            /\ (PairValue(s, i) = 255 <=> v[i] = One)

\* A colour was decoded whose red is ff, whose green is 00 and whose blue is
\* neither.
C7_Witness ==
  /\ Returned("hexToRgb") /\ outcome.kind = "return"
  /\ outcome.value.r = One /\ outcome.value.g = Zero
  /\ outcome.value.b # Zero /\ outcome.value.b # One

ToLower(ch) ==
  CASE ch = "A" -> "a" [] ch = "B" -> "b" [] ch = "C" -> "c"
    [] ch = "D" -> "d" [] ch = "E" -> "e" [] ch = "F" -> "f" [] OTHER -> ch

ToUpper(ch) ==
  CASE ch = "a" -> "A" [] ch = "b" -> "B" [] ch = "c" -> "C"
    [] ch = "d" -> "D" [] ch = "e" -> "E" [] ch = "f" -> "F" [] OTHER -> ch

SixHexDigits(s) == Len(s) = 6 /\ \A i \in 1..6 : s[i] \in HexChars

\* C8: for a string s of six hex digits hexToRgb(s) is hexToRgb('#' + s), and
\* the result is the same for the lower-case and the upper-case spelling of s
\* (so for every spelling of the same digits).
C8_HashAndCaseInsensitive ==
  (Returned("hexToRgb") /\ SixHexDigits(args[1])) =>
    LET s == args[1]
    IN /\ outcome.kind = "return"
       /\ hexToRgb(<<"#">> \o s) = outcome
       /\ hexToRgb([i \in 1..6 |-> ToLower(s[i])]) = outcome
       /\ hexToRgb([i \in 1..6 |-> ToUpper(s[i])]) = outcome
       /\ hexToRgb(<<"#">> \o [i \in 1..6 |-> ToUpper(s[i])]) = outcome

\* Six digits in mixed case were decoded.
C8_Witness ==
  /\ Returned("hexToRgb") /\ SixHexDigits(args[1])
  /\ \E i, j \in 1..6 : args[1][i] = "A" /\ args[1][j] = "f"
  /\ outcome.kind = "return"

Rec709Red == Dec(2126, 4)

Rec709Green == Dec(7152, 4)

Rec709Blue == Dec(722, 4)

\* C9: calculateLuminance is 0.2126 r + 0.7152 g + 0.0722 b; on a triple that
\* hexToRgb produced it is in [0, 1], is 1 for white (the weights sum to 1.0)
\* and is 0 only for black.
C9_WeightedSumInUnit ==
  Returned("calculateLuminance") =>
    LET rgb == args[1]
        v == outcome.value
    IN /\ outcome.kind = "return"
       /\ v = FAdd(FAdd(FMul(Rec709Red, rgb.r), FMul(Rec709Green, rgb.g)),
                   FMul(Rec709Blue, rgb.b))
       /\ InUnit(v)
       /\ FAdd(FAdd(Rec709Red, Rec709Green), Rec709Blue) = One
       /\ (rgb.r = One /\ rgb.g = One /\ rgb.b = One => v = One)
       /\ (v = Zero <=> rgb.r = Zero /\ rgb.g = Zero /\ rgb.b = Zero)

\* The luminance of a colour with no red and no green and some blue was
\* computed: it is above 0.
C9_Witness ==
  /\ Returned("calculateLuminance")
  /\ args[1].r = Zero /\ args[1].g = Zero /\ args[1].b # Zero
  /\ FLt(Zero, outcome.value)

C11_PureComposition ==
  [][(pc = "calling" /\ fn = "getColorLuminance" /\ Valid(args[1])) =>
       /\ outcome'.kind = "return"
       /\ outcome'.value = calculateLuminance(hexToRgb(args[1]).value)
       /\ (Black(args[1]) => outcome'.value = Zero)
       /\ outcome'.warned = <<>>
       /\ console' = console
       /\ args' = args]_vars

\* getColorLuminance returned 0 for black written without '#', and the console
\* is empty.
C11_Witness ==
  /\ Returned("getColorLuminance")
  /\ Valid(args[1]) /\ Black(args[1]) /\ Len(args[1]) = 6
  /\ outcome.kind = "return" /\ outcome.value = Zero
  /\ console = <<>>

\* C12: on an input on which hexToRgb throws, calculateEmissiveIntensity,
\* calculateArtisticIntensity and getColorLuminance throw the same error,
\* whatever the target and the factor: no value comes back, the fallback is
\* not substituted and the console is left as it was.
C12_DecodeErrorPropagates ==
  [][(pc = "calling"
        /\ fn \in {"calculateEmissiveIntensity", "calculateArtisticIntensity",
                   "getColorLuminance"}
        /\ hexToRgb(args[1]).kind = "throw") =>
       /\ outcome'.kind = "throw"
       /\ outcome'.message = hexToRgb(args[1]).message
       /\ outcome'.message = <<"Invalid hex color: ", args[1], ". Expected format: #RRGGBB">>
       /\ "value" \notin DOMAIN outcome'
       /\ outcome'.warned = <<>>
       /\ console' = console]_vars

\* calculateArtisticIntensity was given a string of three digits with a target
\* and a factor, and threw.
C12_Witness ==
  /\ Returned("calculateArtisticIntensity") /\ Len(args) = 3
  /\ Len(args[1]) = 4
  /\ outcome.kind = "throw"

Two == FromInt(2)

Magenta == <<"#", "f", "f", "0", "0", "f", "f">>

\* C14: omitted arguments take the documented defaults on every colour:
\* calculateEmissiveIntensity(c) does what calculateEmissiveIntensity(c, 1.05)
\* does, and calculateArtisticIntensity(c) and calculateArtisticIntensity(c, 2.0)
\* do what calculateArtisticIntensity(c, 2.0, 0.5) does, error and fallback
\* included.
C14_DefaultsApplied ==
  /\ (Returned("calculateEmissiveIntensity") /\ Len(args) = 1) =>
        outcome = calculateEmissiveIntensity(args[1], Dec(105, 2))
  /\ (Returned("calculateArtisticIntensity") /\ Len(args) = 1) =>
        outcome = calculateArtisticIntensity(args[1], Two, Dec(5, 1))
  /\ (Returned("calculateArtisticIntensity") /\ Len(args) = 2) =>
        outcome = calculateArtisticIntensity(args[1], args[2], Dec(5, 1))

\* calculateArtisticIntensity was called on magenta with the colour alone and
\* returned a number between 4 and 5.
C14_Witness ==
  /\ Returned("calculateArtisticIntensity") /\ args = <<Magenta>>
  /\ outcome.kind = "return"
  /\ FLt(FromInt(4), outcome.value) /\ FLt(outcome.value, FromInt(5))

\* |x - about| <= 0.05
About(x, about) == FLe(FAbs(FSub(x, about)), Dec(5, 2))

\* C15: the documented examples hold: calculateArtisticIntensity('#ff00ff', 2.0, f)
\* is within 0.05 of 4.69 at f = 0.5, of 3.61 at f = 0.3 and of 5.77 at f = 0.7.
C15_DocumentedExamples ==
  (Returned("calculateArtisticIntensity") /\ Len(args) = 3
     /\ args[1] = Magenta /\ args[2] = Two) =>
    /\ outcome.kind = "return"
    /\ (args[3] = Dec(5, 1) => About(outcome.value, Dec(469, 2)))
    /\ (args[3] = Dec(3, 1) => About(outcome.value, Dec(361, 2)))
    /\ (args[3] = Dec(7, 1) => About(outcome.value, Dec(577, 2)))

\* The returned call is calculateEmissiveIntensity(c, t) or
\* calculateArtisticIntensity(c, t, f) with c valid and not black, t above 0
\* and f in (0, 1].
BoostReturned ==
  /\ pc = "returned"
  /\ \/ fn = "calculateEmissiveIntensity" /\ Len(args) = 2
     \/ fn = "calculateArtisticIntensity" /\ Len(args) = 3
          /\ args[3] \in UnitFactors /\ ~IsZero(args[3])
  /\ args[1] \in ValidColours /\ ~Black(args[1])
  /\ args[2] \in Targets /\ FLt(Zero, args[2])
  /\ outcome.kind = "return"

\* What the function of the returned call gives on colour c with the same
\* target and factor.
SameCallOn(c) ==
  IF fn = "calculateEmissiveIntensity"
  THEN FullOf[c, args[2]]
  ELSE ArtisticOf[c, args[2], args[3]]

\* C17 as stated: for a target above 0 and valid non-black colours with
\* luminance(c1) < luminance(c2), calculateEmissiveIntensity(c1, t) is strictly
\* above calculateEmissiveIntensity(c2, t), and so is calculateArtisticIntensity
\* at every factor in (0, 1].
C17_StrictHierarchy ==
  BoostReturned =>
    \A c2 \in ValidColours :
      (~Black(c2) /\ FLt(LumOf[args[1]], LumOf[c2])) =>
        FLt(SameCallOn(c2), outcome.value)

\* C17 amended: the hierarchy is never reversed: with luminance(c1) <
\* luminance(c2) the result for c1 is at least the result for c2, and strictly
\* above it when the two luminances differ by more than rounding error.
C17_HierarchyKept ==
  BoostReturned =>
    \A c2 \in ValidColours :
      (~Black(c2) /\ FLt(LumOf[args[1]], LumOf[c2])) =>
        /\ FLe(SameCallOn(c2), outcome.value)
        /\ (LumApart(args[1], c2) => FLt(SameCallOn(c2), outcome.value))

\* calculateEmissiveIntensity returned for a colour the multiplier it gives a
\* colour of higher luminance.
C17_Witness ==
  /\ BoostReturned /\ fn = "calculateEmissiveIntensity"
  /\ \E c2 \in ValidColours :
       /\ ~Black(c2)
       /\ FLt(LumOf[args[1]], LumOf[c2])
       /\ FullOf[c2, args[2]] = outcome.value

FMin(a, b) == IF FLe(a, b) THEN a ELSE b

FMax(a, b) == IF FLe(a, b) THEN b ELSE a

\* The returned call is calculateArtisticIntensity(c, t, f) with c valid and
\* not black and f in [0, 1].
BlendReturned == ArtisticInUnit /\ ~Black(args[1])

InIsolation(f, a) ==
  CASE f = "hexToRgb" -> hexToRgb(a[1])
    [] f = "calculateLuminance" -> Return(calculateLuminance(a[1]))
    [] f = "calculateEmissiveIntensity" ->
         calculateEmissiveIntensity(a[1], Arg(a, 2, DefaultEmissiveTarget))
    [] f = "calculateArtisticIntensity" ->
         calculateArtisticIntensity(a[1], Arg(a, 2, DefaultArtisticTarget),
                                    Arg(a, 3, DefaultCompensationFactor))
    [] f = "getColorLuminance" -> getColorLuminance(a[1])

\* The console lines a call of f with the arguments a writes: one for an
\* intensity function on black, none otherwise.
Diagnostics(f, a) ==
  IF /\ f \in {"calculateEmissiveIntensity", "calculateArtisticIntensity"}
     /\ Valid(a[1]) /\ Black(a[1])
  THEN <<ZeroLuminanceWarning(a[1])>>
  ELSE <<>>

\* The first site's call returns in this step.
Returns == pc = "calling" /\ pc' = "returned"

\* The second site's call returns in this step.
OtherReturns == other.pc = "calling" /\ other'.pc = "returned"

\* C16: calls do not interfere: whatever the other site does between a call
\* and its return, the call's outcome is the one its function gives on its
\* arguments alone, a step of one site leaves the other site's call as it was,
\* and the console grows only when a call returns, by one line for an
\* intensity function on black and by none otherwise.
C16_NoInterference ==
  [][/\ Returns =>
          /\ outcome' = InIsolation(fn, args)
          /\ console' = console \o Diagnostics(fn, args)
     /\ OtherReturns =>
          /\ other'.outcome = InIsolation(other.fn, other.args)
          /\ console' = console \o Diagnostics(other.fn, other.args)
     /\ (<<pc, fn, args, outcome>>' = <<pc, fn, args, outcome>>) \/ other' = other
     /\ ~Returns /\ ~OtherReturns => console' = console]_vars

\* Both sites have called an intensity function on black, both got 1.0 and the
\* console holds the two lines.
C16_Witness ==
  /\ pc = "returned" /\ fn = "calculateArtisticIntensity"
  /\ other.pc = "returned" /\ other.fn = "calculateEmissiveIntensity"
  /\ Black(args[1]) /\ Black(other.args[1])
  /\ outcome.kind = "return" /\ outcome.value = One
  /\ other.outcome.kind = "return" /\ other.outcome.value = One
  /\ Len(console) = 2
====
